---- MODULE Spec2Model ----
(***************************************************************************)
(* A model of the resume parser service: the three backend variants        *)
(* (app.py: Gemini + PyPDF2/docx2txt, app2.py: Groq + base64 passthrough,  *)
(* app3.py: Groq + pdfplumber), their /parse-resume request handler, and   *)
(* the pure helpers they are built from.                                   *)
(*                                                                         *)
(* Text is a sequence of units.  A unit is one character, or (in file      *)
(* names and in model responses) a maximal run of letters written as one   *)
(* string: such a run holds no brace, quote, dot, separator or white       *)
(* space, so find/rfind/slice/strip/rsplit act on units as they act on     *)
(* characters.  Truncation, which counts characters, is only ever applied  *)
(* to texts whose units are single characters.                             *)
(***************************************************************************)
EXTENDS Integers, Sequences, FiniteSets, TLC

(***************************************************************************)
(* Bounds of the model.                                                    *)
(***************************************************************************)
MaxTextLen == 11      \* longest text handed to truncate_to_token_limit
MaxBudget == 3        \* largest token budget tried for truncation
MaxPad == 1           \* prose units put around a response core

(***************************************************************************)
(* Python built-ins, as the code uses them.                                *)
(***************************************************************************)
Whitespace == {" ", "\n"}

Min(a, b) == IF a < b THEN a ELSE b

Max(a, b) == IF a > b THEN a ELSE b

\* str.find(ch): 0-based index of the first occurrence, -1 if there is none.
PyFind(text, ch) ==
    IF \E i \in 1..Len(text) : text[i] = ch
    THEN (CHOOSE i \in 1..Len(text) :
              text[i] = ch /\ \A j \in 1..(i-1) : text[j] # ch) - 1
    ELSE -1

\* str.rfind(ch): 0-based index of the last occurrence, -1 if there is none.
PyRFind(text, ch) ==
    IF \E i \in 1..Len(text) : text[i] = ch
    THEN (CHOOSE i \in 1..Len(text) :
              text[i] = ch /\ \A j \in (i+1)..Len(text) : text[j] # ch) - 1
    ELSE -1

\* A slice bound as Python normalises it: negative counts from the end,
\* and the result is clamped to [0, len].
PyClamp(i, n) == IF i < 0 THEN Max(i + n, 0) ELSE Min(i, n)

\* text[start:end] with 0-based, end-exclusive, possibly negative bounds.
PySlice(text, start, end) ==
    LET lo == PyClamp(start, Len(text))
        hi == PyClamp(end, Len(text))
    IN  IF lo < hi THEN SubSeq(text, lo + 1, hi) ELSE << >>

RECURSIVE LStrip(_, _)
LStrip(text, chars) ==
    IF text # << >> /\ Head(text) \in chars THEN LStrip(Tail(text), chars) ELSE text

RECURSIVE RStrip(_, _)
RStrip(text, chars) ==
    IF text # << >> /\ text[Len(text)] \in chars
    THEN RStrip(SubSeq(text, 1, Len(text) - 1), chars)
    ELSE text

\* str.strip(chars); str.strip() is PyStrip(text, Whitespace).
PyStrip(text, chars) == RStrip(LStrip(text, chars), chars)

RECURSIVE Concat(_)
\* "".join(parts)
Concat(parts) == IF parts = << >> THEN << >> ELSE Head(parts) \o Concat(Tail(parts))

(***************************************************************************)
(* json.loads and json.dumps, on texts without escapes and numbers.        *)
(* A parsed value is tagged: a dict keeps its items in insertion order.    *)
(***************************************************************************)
JStr(s) == [t |-> "str", s |-> s]

JLit(w) == [t |-> "lit", s |-> w]

JList(items) == [t |-> "list", items |-> items]

JDict(items) == [t |-> "dict", items |-> items]

JsonLiterals == {"true", "false", "null"}

JOk(v, next) == [ok |-> TRUE, v |-> v, next |-> next]

JErr(msg) == [ok |-> FALSE, msg |-> msg]

\* dict[key] = value: a repeated key keeps its first position, takes the last value.
DictSet(items, key, value) ==
    IF \E i \in 1..Len(items) : items[i][1] = key
    THEN [i \in 1..Len(items) |->
              IF items[i][1] = key THEN <<key, value>> ELSE items[i]]
    ELSE Append(items, <<key, value>>)

RECURSIVE SkipWs(_, _)
SkipWs(s, i) == IF i <= Len(s) /\ s[i] \in Whitespace THEN SkipWs(s, i + 1) ELSE i

RECURSIVE ScanQuote(_, _)
\* The index of the next double quote at or after i, 0 if there is none.
ScanQuote(s, i) ==
    IF i > Len(s) THEN 0 ELSE IF s[i] = "\"" THEN i ELSE ScanQuote(s, i + 1)

RECURSIVE ParseValue(_, _)
RECURSIVE ParseMembers(_, _, _)
RECURSIVE AfterMember(_, _, _, _)
RECURSIVE ParseElements(_, _, _)
RECURSIVE AfterElement(_, _, _)

\* The value starting at index i (white space already skipped).
ParseValue(s, i) ==
    IF i > Len(s) THEN JErr("Expecting value")
    ELSE IF s[i] = "\"" THEN
        LET j == ScanQuote(s, i + 1)
        IN  IF j = 0 THEN JErr("Unterminated string starting at")
            ELSE JOk(JStr(SubSeq(s, i + 1, j - 1)), j + 1)
    ELSE IF s[i] = "{" THEN
        LET j == SkipWs(s, i + 1)
        IN  IF j <= Len(s) /\ s[j] = "}" THEN JOk(JDict(<< >>), j + 1)
            ELSE ParseMembers(s, j, << >>)
    ELSE IF s[i] = "[" THEN
        LET j == SkipWs(s, i + 1)
        IN  IF j <= Len(s) /\ s[j] = "]" THEN JOk(JList(<< >>), j + 1)
            ELSE ParseElements(s, j, << >>)
    ELSE IF s[i] \in JsonLiterals THEN JOk(JLit(s[i]), i + 1)
    ELSE JErr("Expecting value")

\* The members of an object from index i (a key is expected there) on.
ParseMembers(s, i, items) ==
    IF i > Len(s) \/ s[i] # "\""
    THEN JErr("Expecting property name enclosed in double quotes")
    ELSE
        LET k == ScanQuote(s, i + 1)
        IN  IF k = 0 THEN JErr("Unterminated string starting at")
            ELSE
              LET key == SubSeq(s, i + 1, k - 1)
                  c == SkipWs(s, k + 1)
              IN  IF c > Len(s) \/ s[c] # ":" THEN JErr("Expecting ':' delimiter")
                  ELSE AfterMember(s, items, key, ParseValue(s, SkipWs(s, c + 1)))

\* What follows the member whose value parsed to r: the end of the object,
\* or a comma and the next member.
AfterMember(s, items, key, r) ==
    IF ~r.ok THEN r
    ELSE
      LET e == SkipWs(s, r.next)
          now == DictSet(items, key, r.v)
      IN  IF e <= Len(s) /\ s[e] = "}" THEN JOk(JDict(now), e + 1)
          ELSE IF e <= Len(s) /\ s[e] = ","
          THEN ParseMembers(s, SkipWs(s, e + 1), now)
          ELSE JErr("Expecting ',' delimiter")

\* The elements of an array from index i (a value is expected there) on.
ParseElements(s, i, items) == AfterElement(s, items, ParseValue(s, i))

\* What follows the element that parsed to r: the end of the array, or a
\* comma and the next element.
AfterElement(s, items, r) ==
    IF ~r.ok THEN r
    ELSE
      LET e == SkipWs(s, r.next)
          now == Append(items, r.v)
      IN  IF e <= Len(s) /\ s[e] = "]" THEN JOk(JList(now), e + 1)
          ELSE IF e <= Len(s) /\ s[e] = ","
          THEN ParseElements(s, SkipWs(s, e + 1), now)
          ELSE JErr("Expecting ',' delimiter")

\* The document ends after the value that parsed to r, white space apart.
EndOfDocument(s, r) ==
    IF ~r.ok THEN r
    ELSE IF SkipWs(s, r.next) # Len(s) + 1 THEN JErr("Extra data")
    ELSE [ok |-> TRUE, v |-> r.v]

\* json.loads(s): one value, white space around it, nothing else.
json_loads(s) == EndOfDocument(s, ParseValue(s, SkipWs(s, 1)))

RECURSIVE json_dumps(_)
RECURSIVE DumpItems(_)
RECURSIVE DumpElements(_)

DumpItems(items) ==
    IF items = << >> THEN << >>
    ELSE <<"\"">> \o items[1][1] \o <<"\"", ":", " ">> \o json_dumps(items[1][2])
         \o (IF Len(items) > 1 THEN <<",", " ">> ELSE << >>)
         \o DumpItems(Tail(items))

DumpElements(items) ==
    IF items = << >> THEN << >>
    ELSE json_dumps(items[1])
         \o (IF Len(items) > 1 THEN <<",", " ">> ELSE << >>)
         \o DumpElements(Tail(items))

\* json.dumps(v) with the default separators (", " and ": ") and key order.
json_dumps(v) ==
    IF v.t = "str" THEN <<"\"">> \o v.s \o <<"\"">>
    ELSE IF v.t = "lit" THEN <<v.s>>
    ELSE IF v.t = "list" THEN <<"[">> \o DumpElements(v.items) \o <<"]">>
    ELSE <<"{">> \o DumpItems(v.items) \o <<"}">>

(***************************************************************************)
(* Exceptions and returns.  str(e) is kept as the sequence of its parts:   *)
(* the literal prefixes the code puts before the cause's own message.      *)
(***************************************************************************)
Return(v) == [ok |-> TRUE, v |-> v]

Raise(type, msg) == [ok |-> FALSE, type |-> type, msg |-> msg]

NoJsonObjectFound == "No JSON object found in response"

(***************************************************************************)
(* The response sanitizer.                                                 *)
(***************************************************************************)
\* return json.dumps(parsed), and the except clause of clean_json_string
\* when json.loads raised.
DumpParsed(parsed) ==
    IF ~parsed.ok THEN Raise("ValueError", <<"Invalid JSON structure: ", parsed.msg>>)
    ELSE Return(json_dumps(parsed.v))

\* DumpParsed with str(parsed) for json.dumps(parsed): Python's own notation,
\* which quotes with ' and is not JSON.
StrParsed(parsed) ==
    IF ~parsed.ok THEN Raise("ValueError", <<"Invalid JSON structure: ", parsed.msg>>)
    ELSE Return([i \in 1..Len(json_dumps(parsed.v)) |->
                    IF json_dumps(parsed.v)[i] = "\"" THEN "'"
                    ELSE json_dumps(parsed.v)[i]])

\* clean_json_string with the "+ 1" after rfind left out: the slice stops
\* before the last "}".
clean_json_string_end_at_rfind(text) ==
    LET start == PyFind(text, "{")
        end == PyRFind(text, "}")
    IN  IF start = -1 \/ end = -1
        THEN Raise("ValueError", <<"Invalid JSON structure: ", NoJsonObjectFound>>)
        ELSE DumpParsed(json_loads(PySlice(text, start, end)))

\* clean_json_string returning str(parsed) for json.dumps(parsed).
clean_json_string_str(text) ==
    LET start == PyFind(text, "{")
        end == PyRFind(text, "}") + 1
    IN  IF start = -1 \/ end = 0
        THEN Raise("ValueError", <<"Invalid JSON structure: ", NoJsonObjectFound>>)
        ELSE StrParsed(json_loads(PySlice(text, start, end)))

\* ResumeParser.clean_json_string of app2.py and app3.py.
clean_json_string(text) ==
    LET start == PyFind(text, "{")
        end == PyRFind(text, "}") + 1
    IN  IF start = -1 \/ end = 0
        THEN Raise("ValueError", <<"Invalid JSON structure: ", NoJsonObjectFound>>)
        ELSE DumpParsed(json_loads(PySlice(text, start, end)))

\* return json.loads(...), or the JSONDecodeError it raises.
LoadsResult(parsed) ==
    IF ~parsed.ok THEN Raise("JSONDecodeError", <<parsed.msg>>) ELSE Return(parsed.v)

\* The inline extraction of app.py's ResumeParser.parse_resume: no test for a
\* missing brace, the slice is parsed whatever find and rfind returned.
ExtractJsonInline(response_text) ==
    LET json_start == PyFind(response_text, "{")
        json_end == PyRFind(response_text, "}") + 1
    IN  LoadsResult(json_loads(PySlice(response_text, json_start, json_end)))

\* return json.loads(clean_json), when clean_json_string returned.
LoadClean(clean_json) ==
    IF ~clean_json.ok THEN clean_json ELSE LoadsResult(json_loads(clean_json.v))

\* What parse_resume does with the completion's text, up to its except clause.
SanitizeResponse(variant, response_text) ==
    IF variant = "app" THEN ExtractJsonInline(response_text)
    ELSE LoadClean(clean_json_string(response_text))

(***************************************************************************)
(* The token budgeter.  tiktoken's encoder is byte-pair encoding: every    *)
(* character starts as a token of its own and the adjacent pair of lowest  *)
(* rank is merged, leftmost first, until no pair has a rank.               *)
(***************************************************************************)
TokChars == {"a", "b"}

\* The merged tokens of the model's vocabulary, lowest rank first.
BpeRanks == << <<"a", "b">>, <<"a", "b", "a", "b">>, <<"b", "b">> >>

BpeRank(tok) ==
    IF \E k \in 1..Len(BpeRanks) : BpeRanks[k] = tok
    THEN CHOOSE k \in 1..Len(BpeRanks) : BpeRanks[k] = tok
    ELSE 0

RECURSIVE BpeMerge(_)
BpeMerge(parts) ==
    LET pair(i) == parts[i] \o parts[i + 1]
        cands == {i \in 1..(Len(parts) - 1) : BpeRank(pair(i)) > 0}
    IN  IF cands = {} THEN parts
        ELSE
          LET best == CHOOSE i \in cands : \A j \in cands :
                          \/ BpeRank(pair(i)) < BpeRank(pair(j))
                          \/ BpeRank(pair(i)) = BpeRank(pair(j)) /\ i <= j
          IN  BpeMerge(SubSeq(parts, 1, best - 1) \o <<pair(best)>>
                       \o SubSeq(parts, best + 2, Len(parts)))

\* count_tokens(text): len(enc.encode(text))
count_tokens(text) == Len(BpeMerge([i \in 1..Len(text) |-> <<text[i]>>]))

\* round(len(text) * 0.9) for int(len(text) * 0.9): a text of four characters
\* is "cut" to four.
ShrunkLenRounded(len) == (len * 9 + 5) \div 10

\* int(len(text) * 0.9): the double nearest 0.9 lies above 0.9 by less than
\* 3e-17, so the product truncates to floor(9 * len / 10) for every length
\* a 16 MiB upload can give.
ShrunkLen(len) == (len * 9) \div 10

\* One pass of the loop body: text[:int(len(text) * 0.9)]
Shrink(text) == PySlice(text, 0, ShrunkLen(Len(text)))

RECURSIVE truncate_to_token_limit(_, _)
truncate_to_token_limit(text, max_tokens) ==
    IF count_tokens(text) > max_tokens
    THEN truncate_to_token_limit(Shrink(text), max_tokens)
    ELSE text

MAX_TOKENS == 2000

(***************************************************************************)
(* File names.                                                             *)
(***************************************************************************)
ALLOWED_EXTENSIONS == { <<"pdf">>, <<"docx">>, <<"doc">> }

\* str.lower() on a unit.
LowerUnit(u) ==
    CASE u = "PDF" -> "pdf"
      [] u = "Pdf" -> "pdf"
      [] u = "DOCX" -> "docx"
      [] u = "TXT" -> "txt"
      [] OTHER -> u

PyLower(text) == [i \in 1..Len(text) |-> LowerUnit(text[i])]

\* filename.rsplit('.', 1)[1]: what follows the last dot.
AfterLastDot(filename) == PySlice(filename, PyRFind(filename, ".") + 1, Len(filename))

\* allowed_file with split('.')[1] for rsplit('.', 1)[1]: what follows the
\* first dot, up to the next one.
allowed_file_first_dot(filename) ==
    /\ \E i \in 1..Len(filename) : filename[i] = "."
    /\ LET rest == PySlice(filename, PyFind(filename, ".") + 1, Len(filename))
           stop == PyFind(rest, ".")
       IN  PyLower(IF stop = -1 THEN rest ELSE PySlice(rest, 0, stop))
               \in ALLOWED_EXTENSIONS

allowed_file(filename) ==
    /\ \E i \in 1..Len(filename) : filename[i] = "."
    /\ PyLower(AfterLastDot(filename)) \in ALLOWED_EXTENSIONS

RECURSIVE SplitJoin(_, _)
\* "_".join(text.split()): runs of white space become one "_", none at the ends.
SplitJoin(text, pending) ==
    IF text = << >> THEN << >>
    ELSE IF Head(text) \in Whitespace THEN SplitJoin(Tail(text), pending)
    ELSE (IF pending THEN <<"_">> ELSE << >>) \o <<Head(text)>>
         \o (IF Len(text) > 1 /\ text[2] \in Whitespace
             THEN SplitJoin(Tail(text), TRUE)
             ELSE SplitJoin(Tail(text), FALSE))

\* werkzeug's secure_filename: path separators become white space, white
\* space runs become "_", and dots and underscores are stripped off both ends.
secure_filename(filename) ==
    LET spaced == [i \in 1..Len(filename) |->
                      IF filename[i] = "/" THEN " " ELSE filename[i]]
    IN  PyStrip(SplitJoin(spaced, FALSE), {".", "_"})

\* os.path.splitext(file_path)[1].lower() for a name that starts with no dot.
FileExtension(file_path) ==
    IF PyRFind(file_path, ".") = -1 THEN << >>
    ELSE PyLower(PySlice(file_path, PyRFind(file_path, "."), Len(file_path)))

(***************************************************************************)
(* Uploaded documents.  A document is what the libraries make of its       *)
(* bytes: its format, the text of each page (for a Word file, the one text *)
(* the converter yields), and the bytes themselves.                        *)
(***************************************************************************)
NoFile == [fmt |-> "none"]

DocResume == [fmt |-> "pdf", texts |-> << <<"a", "b">>, <<"b", " ">> >>,
              bytes |-> <<37, 80, 68, 70>>]

\* A scanned PDF: its pages hold no text.
DocScanned == [fmt |-> "pdf", texts |-> << <<" ">>, << >> >>,
               bytes |-> <<37, 80, 68>>]

DocWord == [fmt |-> "word", texts |-> << <<"b", "a">> >>, bytes |-> <<80, 75>>]

DocWordEmpty == [fmt |-> "word", texts |-> << << >> >>, bytes |-> <<80, 75, 3>>]

\* A zero-byte upload: no library can open it.
DocEmpty == [fmt |-> "corrupt", texts |-> << >>, bytes |-> << >>]

Documents == {DocResume, DocScanned, DocWord, DocWordEmpty, DocEmpty}

ENOENT == "[Errno 2] No such file or directory"

LibraryError == "<error raised by the document library>"

\* base64's alphabet, index 0 first.
B64Alphabet ==
    <<"A", "B", "C", "D", "E", "F", "G", "H", "I", "J", "K", "L", "M",
      "N", "O", "P", "Q", "R", "S", "T", "U", "V", "W", "X", "Y", "Z",
      "a", "b", "c", "d", "e", "f", "g", "h", "i", "j", "k", "l", "m",
      "n", "o", "p", "q", "r", "s", "t", "u", "v", "w", "x", "y", "z",
      "0", "1", "2", "3", "4", "5", "6", "7", "8", "9", "+", "/">>

\* One group of one to three bytes as four characters, padded with "=".
B64Group(g) ==
    LET n == g[1] * 65536 + (IF Len(g) >= 2 THEN g[2] * 256 ELSE 0)
                          + (IF Len(g) = 3 THEN g[3] ELSE 0)
        sextet(k) == B64Alphabet[((n \div (64 ^ (3 - k))) % 64) + 1]
    IN  <<sextet(0), sextet(1),
          IF Len(g) >= 2 THEN sextet(2) ELSE "=",
          IF Len(g) = 3 THEN sextet(3) ELSE "=">>

RECURSIVE b64encode(_)
\* base64.b64encode(file_content).decode('utf-8')
b64encode(bytes) ==
    IF bytes = << >> THEN << >>
    ELSE LET k == Min(3, Len(bytes))
         IN  B64Group(SubSeq(bytes, 1, k)) \o b64encode(SubSeq(bytes, k + 1, Len(bytes)))

(***************************************************************************)
(* Text extraction.                                                        *)
(***************************************************************************)
\* app.py, ResumeParser.extract_text_from_pdf: the pages' texts, joined.
extract_text_from_pdf(file) ==
    IF file = NoFile
    THEN Raise("Exception", <<"Error extracting text from PDF: ", ENOENT>>)
    ELSE IF file.fmt # "pdf"
    THEN Raise("Exception", <<"Error extracting text from PDF: ", LibraryError>>)
    ELSE Return(Concat(file.texts))

\* app.py, ResumeParser.extract_text_from_docx.
extract_text_from_docx(file) ==
    IF file = NoFile
    THEN Raise("Exception", <<"Error extracting text from DOCX: ", ENOENT>>)
    ELSE IF file.fmt # "word"
    THEN Raise("Exception", <<"Error extracting text from DOCX: ", LibraryError>>)
    ELSE Return(Concat(file.texts))

\* app.py, ResumeParser.extract_text: the strategy follows the path's extension.
extract_text(file_path, file) ==
    LET file_extension == FileExtension(file_path)
    IN  IF file_extension = <<".", "pdf">> THEN extract_text_from_pdf(file)
        ELSE IF file_extension \in { <<".", "docx">>, <<".", "doc">> }
        THEN extract_text_from_docx(file)
        ELSE Raise("Exception", <<"Unsupported file format: ">> \o file_extension)

\* app3.py, ResumeParser.extract_text_from_pdf: a line break after every page,
\* the whole stripped, and no text at all is an error.
extract_text_from_pdf3(file) ==
    IF file = NoFile THEN Raise("RuntimeError", <<"Failed to extract text: ", ENOENT>>)
    ELSE IF file.fmt # "pdf"
    THEN Raise("RuntimeError", <<"Failed to extract text: ", LibraryError>>)
    ELSE
      LET text == Concat([i \in 1..Len(file.texts) |-> file.texts[i] \o <<"\n">>])
      IN  IF PyStrip(text, Whitespace) = << >>
          THEN Raise("RuntimeError", <<"Failed to extract text: ",
                                       "No text could be extracted from the PDF.">>)
          ELSE Return(PyStrip(text, Whitespace))

(***************************************************************************)
(* The pipeline, stage by stage.  A stage returns its value or the         *)
(* exception that reaches the request handler.                             *)
(***************************************************************************)
Variants == {"app", "app2", "app3"}

\* The except clause of ResumeParser.parse_resume: one exception type, the
\* cause's message behind a fixed prefix.
WrapParseError(variant, e) ==
    IF variant = "app"
    THEN Raise("Exception", <<"Error parsing resume with Gemini API: ">> \o e.msg)
    ELSE Raise("RuntimeError", <<"Error parsing resume: ">> \o e.msg)

\* A stage's result as it leaves parse_resume: a raise goes through the
\* except clause.
ThroughExcept(variant, r) == IF r.ok THEN r ELSE WrapParseError(variant, r)

\* truncate_to_token_limit(extracted_text, self.MAX_TOKENS), when the
\* extraction returned.
TruncateExtracted(extracted_text) ==
    IF ~extracted_text.ok THEN extracted_text
    ELSE Return(truncate_to_token_limit(extracted_text.v, MAX_TOKENS))

\* From the saved file to the text sent with the prompt.
PreparePayload(variant, file_path, file) ==
    IF variant = "app" THEN extract_text(file_path, file)
    ELSE IF variant = "app2" THEN
        IF file = NoFile THEN WrapParseError(variant, Raise("FileNotFoundError", <<ENOENT>>))
        ELSE Return(truncate_to_token_limit(b64encode(file.bytes), MAX_TOKENS))
    ELSE ThroughExcept(variant, TruncateExtracted(extract_text_from_pdf3(file)))

\* From the completion's text to the record parse_resume returns.
ParseResponse(variant, response_text) ==
    ThroughExcept(variant, SanitizeResponse(variant, response_text))

\* The handler's response to a pipeline result.
HttpOf(result) ==
    IF result.ok
    THEN [code |-> 200, body |-> [status |-> "success", data |-> result.v]]
    ELSE [code |-> 500, body |-> [status |-> "error", error |-> result.msg]]

HttpRejected(why) == [code |-> 400, body |-> [error |-> why]]

\* The answer to a file name that is not allowed: app2.py and app3.py add the
\* set of allowed extensions.
NotAllowedMessage(variant) ==
    IF variant = "app" THEN <<"File type not allowed">>
    ELSE <<"File type not allowed. Allowed types: ", ALLOWED_EXTENSIONS>>

(***************************************************************************)
(* Inputs: uploads and completion results.                                 *)
(***************************************************************************)
\* An upload: the file name the client gave and the document sent under it.
Upload(f, d) == [filename |-> f, doc |-> d]

\* Uploads the handler lets through.  "my cv.pdf" and "my_cv.pdf" are saved
\* under one name; ".pdf" is saved as "pdf", a name without an extension.
GoodUploads ==
    { Upload(<<"cv", ".", "pdf">>, DocResume),
      Upload(<<"cv", ".", "pdf">>, DocScanned),
      Upload(<<"cv", ".", "PDF">>, DocEmpty),
      Upload(<<"my", " ", "cv", ".", "pdf">>, DocResume),
      Upload(<<"my", "_", "cv", ".", "pdf">>, DocWord),
      Upload(<<"cv", ".", "docx">>, DocWord),
      Upload(<<"cv", ".", "docx">>, DocWordEmpty),
      Upload(<<".", "pdf">>, DocResume) }

\* Uploads whose name has no dot, or an extension outside the allowed ones.
BadUploads ==
    { Upload(<<"cv", ".", "txt">>, DocResume),
      Upload(<<"cv", ".", "pdf", ".", "TXT">>, DocResume),
      Upload(<<"cv", ".">>, DocWord),
      Upload(<<"pdf">>, DocResume),
      Upload(<<"cv", ".", "pdf", " ">>, DocScanned) }

Uploads == GoodUploads \cup BadUploads

Q(w) == <<"\"", w, "\"">>

EmptyString == <<"\"", "\"">>

\* The record the prompt asks for, every field empty, wrapped in prose.
RespFull ==
    <<"Sure", " ", "{">> \o Q("profile") \o <<":", " ", "{">>
    \o Q("location") \o <<":", "{">> \o Q("current") \o <<":">> \o EmptyString
    \o <<",">> \o Q("relocation") \o <<":">> \o EmptyString \o <<"}", ",">>
    \o Q("education") \o <<":", "{">> \o Q("college") \o <<":">> \o EmptyString
    \o <<",">> \o Q("degree") \o <<":">> \o Q("BSc")
    \o <<",">> \o Q("stream") \o <<":">> \o EmptyString \o <<"}", ",">>
    \o Q("professionalExperience") \o <<":", "[", "]", ",">>
    \o Q("skills") \o <<":", "[", "]", "}", "}", " ", "bye">>

\* A well-formed object that leaves the skills and the education out.
RespPartial ==
    <<"{">> \o Q("profile") \o <<":", "{">> \o Q("location") \o <<":", "{">>
    \o Q("current") \o <<":">> \o Q("Pune") \o <<"}", "}", "}">>

RespEmptyObject == <<"{", "}">>

RespProse == <<"I", " ", "could", " ", "not", " ", "process", " ", "this", " ", "file">>

Responses == {RespFull, RespPartial, RespEmptyObject, RespProse}

CompletionError == Raise("APIError", <<"<error raised by the completion service>">>)

\* What a call of the completion service can end in.
CompletionResults == {Return(r) : r \in Responses} \cup {CompletionError}

Requests == {"r1", "r2"}

\* The files of the uploads folder, by the name secure_filename gives them.
Paths == {secure_filename(u.filename) : u \in {v \in Uploads : allowed_file(v.filename)}}

(***************************************************************************)
(* State.                                                                  *)
(***************************************************************************)
VARIABLES
    variant,  \* which of the three programs is running
    req,      \* per request: pc, filename, doc, payload, response, result, http
    obs,      \* per request, what has been observed of it (history)
    fs,       \* the uploads folder: path -> NoFile or the saved file
    tText, tBudget, tOrig, tIters, tPrev, tPc,   \* a run of truncate_to_token_limit
    sRaw, sPc, sClean, sInline, sParsed, sAgain  \* a run of the sanitizer

handlerVars == <<variant, req, obs, fs>>

truncVars == <<tText, tBudget, tOrig, tIters, tPrev, tPc>>

sanVars == <<sRaw, sPc, sClean, sInline, sParsed, sAgain>>

vars == <<variant, req, obs, fs, tText, tBudget, tOrig, tIters, tPrev, tPc,
          sRaw, sPc, sClean, sInline, sParsed, sAgain>>

None == [ok |-> FALSE, type |-> "none", msg |-> << >>]

NoHttp == [code |-> 0]

InitHandler ==
    /\ variant \in Variants
    /\ req = [r \in Requests |->
                [pc |-> "idle", filename |-> << >>, doc |-> NoFile, payload |-> << >>,
                 response |-> << >>, result |-> None, http |-> NoHttp]]
    /\ obs = [r \in Requests |->
                [saved |-> FALSE, extracted |-> 0, completions |-> 0,
                 sent |-> << >>, read |-> NoFile, failedStage |-> "none"]]
    /\ fs = [p \in Paths |-> NoFile]

IdleTruncate ==
    /\ tText = << >> /\ tBudget = 1 /\ tOrig = << >>
    /\ tIters = 0 /\ tPrev = 0 /\ tPc = "idle"

IdleSanitize ==
    /\ sRaw = << >> /\ sPc = "idle"
    /\ sClean = None /\ sInline = None /\ sParsed = None /\ sAgain = None

Init == InitHandler /\ IdleTruncate /\ IdleSanitize

(***************************************************************************)
(* The /parse-resume handler, one action per step.                         *)
(***************************************************************************)
FilePath(r) == secure_filename(req[r].filename)

\* 'resume' not in request.files
RejectNoFile(r) ==
    /\ req[r].pc = "idle"
    /\ req' = [req EXCEPT ![r].pc = "done", ![r].http = HttpRejected("No file uploaded")]
    /\ UNCHANGED <<variant, obs, fs, truncVars, sanVars>>

\* file.filename == ''
RejectNoFilename(r) ==
    /\ req[r].pc = "idle"
    /\ \E d \in Documents :
         req' = [req EXCEPT ![r].pc = "done", ![r].doc = d,
                            ![r].http = HttpRejected("No file selected")]
    /\ UNCHANGED <<variant, obs, fs, truncVars, sanVars>>

\* not allowed_file(file.filename)
RejectNotAllowed(r) ==
    /\ req[r].pc = "idle"
    /\ \E u \in Uploads :
         /\ u.filename # << >>
         /\ ~allowed_file(u.filename)
         /\ req' = [req EXCEPT ![r].pc = "done", ![r].filename = u.filename,
                               ![r].doc = u.doc,
                               ![r].http = HttpRejected(NotAllowedMessage(variant))]
    /\ UNCHANGED <<variant, obs, fs, truncVars, sanVars>>

\* The three checks passed: file.save(os.path.join(UPLOAD_FOLDER, secure_filename(...)))
AcceptAndSave(r) ==
    /\ req[r].pc = "idle"
    /\ \E u \in Uploads :
         /\ u.filename # << >>
         /\ allowed_file(u.filename)
         /\ req' = [req EXCEPT ![r].pc = "extract", ![r].filename = u.filename,
                               ![r].doc = u.doc]
         /\ fs' = [fs EXCEPT ![secure_filename(u.filename)] =
                                 [owner |-> r, doc |-> u.doc]]
    /\ obs' = [obs EXCEPT ![r].saved = TRUE]
    /\ UNCHANGED <<variant, truncVars, sanVars>>

\* What is at the request's path now: a document, or nothing.
FileAt(path) == IF fs[path] = NoFile THEN NoFile ELSE fs[path].doc

\* The pipeline up to the completion call: read the file, make the payload.
ExtractAndTruncate(r) ==
    /\ req[r].pc = "extract"
    /\ \E file \in {FileAt(FilePath(r))} :
       \E p \in {PreparePayload(variant, FilePath(r), file)} :
           /\ obs' = [obs EXCEPT ![r].extracted = @ + 1, ![r].read = file,
                                 ![r].failedStage = IF p.ok THEN @ ELSE "extract"]
           /\ req' = IF p.ok
                     THEN [req EXCEPT ![r].pc = "complete", ![r].payload = p.v]
                     ELSE [req EXCEPT ![r].pc = "finally", ![r].result = p]
    /\ UNCHANGED <<variant, fs, truncVars, sanVars>>

\* The completion call, and what parse_resume makes of its answer: the service
\* answers with some text, which is cut to its JSON object and parsed, or the
\* call raises.
CompleteAndSanitize(r) ==
    /\ req[r].pc = "complete"
    /\ \E c \in CompletionResults :
         \E res \in {IF c.ok THEN ParseResponse(variant, c.v)
                     ELSE WrapParseError(variant, c)} :
             /\ obs' = [obs EXCEPT ![r].completions = @ + 1,
                                   ![r].sent = req[r].payload,
                                   ![r].failedStage =
                                       IF ~c.ok THEN "completion"
                                       ELSE IF ~res.ok THEN "sanitize" ELSE @]
             /\ req' = [req EXCEPT ![r].pc = "finally", ![r].result = res,
                                   ![r].response = IF c.ok THEN c.v ELSE << >>]
    /\ UNCHANGED <<variant, fs, truncVars, sanVars>>

\* The removal moved from the finally clause into the success path: a run
\* that raised leaves its file behind.
RemoveOnSuccessOnly(r) ==
    IF req[r].result.ok /\ fs[FilePath(r)] # NoFile
    THEN /\ req' = [req EXCEPT ![r].pc = "done", ![r].http = HttpOf(req[r].result)]
         /\ fs' = [fs EXCEPT ![FilePath(r)] = NoFile]
    ELSE /\ req' = [req EXCEPT ![r].pc = "done", ![r].http = HttpOf(req[r].result)]
         /\ fs' = fs

\* os.remove(file_path), and the response that follows: a missing file raises
\* FileNotFoundError, which replaces whatever the handler was about to return.
RemoveAndReturn(r) ==
    IF fs[FilePath(r)] = NoFile
    THEN /\ req' = [req EXCEPT ![r].pc = "done",
                               ![r].http = HttpOf(Raise("FileNotFoundError", <<ENOENT>>))]
         /\ fs' = fs
    ELSE /\ req' = [req EXCEPT ![r].pc = "done", ![r].http = HttpOf(req[r].result)]
         /\ fs' = [fs EXCEPT ![FilePath(r)] = NoFile]

\* The finally clause: app.py removes the file; app2.py and app3.py first
\* test os.path.exists and remove in a second step.
Finally(r) ==
    /\ req[r].pc = "finally"
    /\ IF variant = "app" THEN RemoveAndReturn(r)
       ELSE IF fs[FilePath(r)] # NoFile
       THEN /\ req' = [req EXCEPT ![r].pc = "remove"]
            /\ fs' = fs
       ELSE /\ req' = [req EXCEPT ![r].pc = "done", ![r].http = HttpOf(req[r].result)]
            /\ fs' = fs
    /\ UNCHANGED <<variant, obs, truncVars, sanVars>>

\* app2.py and app3.py: os.remove after os.path.exists said yes.
Remove(r) ==
    /\ req[r].pc = "remove"
    /\ RemoveAndReturn(r)
    /\ UNCHANGED <<variant, obs, truncVars, sanVars>>

Next ==
    \E r \in Requests :
        \/ RejectNoFile(r)
        \/ RejectNoFilename(r)
        \/ RejectNotAllowed(r)
        \/ AcceptAndSave(r)
        \/ ExtractAndTruncate(r)
        \/ CompleteAndSanitize(r)
        \/ Finally(r)
        \/ Remove(r)

Spec == Init /\ [][Next]_vars

(***************************************************************************)
(* truncate_to_token_limit on its own, one loop test per step.             *)
(***************************************************************************)
IdleHandler ==
    /\ variant = "app3"
    /\ req = [r \in Requests |->
                [pc |-> "idle", filename |-> << >>, doc |-> NoFile, payload |-> << >>,
                 response |-> << >>, result |-> None, http |-> NoHttp]]
    /\ obs = [r \in Requests |->
                [saved |-> FALSE, extracted |-> 0, completions |-> 0,
                 sent |-> << >>, read |-> NoFile, failedStage |-> "none"]]
    /\ fs = [p \in Paths |-> NoFile]

\* Every text of at most len characters.
TextsUpTo(len) == UNION {[1..n -> TokChars] : n \in 0..len}

InitTruncate ==
    /\ IdleHandler /\ IdleSanitize
    /\ tText \in TextsUpTo(MaxTextLen)
    /\ tBudget \in 1..MaxBudget
    /\ tOrig = tText
    /\ tIters = 0
    /\ tPrev = Len(tText)
    /\ tPc = "loop"

\* while count_tokens(text) > max_tokens: text = text[:int(len(text) * 0.9)]
TruncateShrink ==
    /\ tPc = "loop"
    /\ count_tokens(tText) > tBudget
    /\ tText' = Shrink(tText)
    /\ tPrev' = Len(tText)
    /\ tIters' = tIters + 1
    /\ UNCHANGED <<tBudget, tOrig, tPc, handlerVars, sanVars>>

\* The loop test fails: return text
TruncateReturn ==
    /\ tPc = "loop"
    /\ ~(count_tokens(tText) > tBudget)
    /\ tPc' = "returned"
    /\ UNCHANGED <<tText, tBudget, tOrig, tIters, tPrev, handlerVars, sanVars>>

NextTruncate == TruncateShrink \/ TruncateReturn

SpecTruncate == InitTruncate /\ [][NextTruncate]_vars

(***************************************************************************)
(* The sanitizer on its own: a raw response, sanitized, and the canonical  *)
(* output sanitized once more.                                             *)
(***************************************************************************)
PadUnits == {"{", "}", " ", "ok"}

\* The prose before and after a response's core.
PadsUpTo(len) == UNION {[1..n -> PadUnits] : n \in 0..len}

Cores ==
    { << >>,
      <<"no", " ", "data">>,
      <<"{", "}">>,
      <<"{">> \o Q("a") \o <<":">> \o Q("b") \o <<"}">>,
      <<"{">> \o Q("a") \o <<":", " ">> \o Q("b") \o <<",">> \o Q("a") \o <<":">>
          \o Q("c") \o <<",", " ">> \o Q("d") \o <<":", "null", "}">>,
      <<"{", " ">> \o Q("a") \o <<" ", ":", "{">> \o Q("b") \o <<":", "[", "true",
          ",", "{", "}", "]", "}", "}">>,
      <<"{">> \o Q("a") \o <<":">> \o Q("b"),
      <<"[">> \o Q("a") \o <<"]">>,
      <<"{">> \o Q("a") \o <<":">> \o Q("}") \o <<"}">>,
      <<"{">> \o Q("x") \o <<":", "true", "}", " ", "{">> \o Q("y") \o <<":", "null", "}">>,
      <<"}", "{">> }

RawTexts ==
    {pre \o core \o post :
        pre \in PadsUpTo(MaxPad), core \in Cores, post \in PadsUpTo(MaxPad)}

InitSanitize ==
    /\ IdleHandler /\ IdleTruncate
    /\ sRaw \in RawTexts
    /\ sPc = "raw"
    /\ sClean = None /\ sInline = None /\ sParsed = None /\ sAgain = None

\* The response goes through each variant's sanitizer.
SanitizeRaw ==
    /\ sPc = "raw"
    /\ sClean' = clean_json_string(sRaw)
    /\ sInline' = ParseResponse("app", sRaw)
    /\ sParsed' = ParseResponse("app3", sRaw)
    /\ sPc' = "cleaned"
    /\ UNCHANGED <<sRaw, sAgain, handlerVars, truncVars>>

\* clean_json_string on its own output; a failure of the first call is
\* the outcome of the second.
SanitizeAgain ==
    /\ sPc = "cleaned"
    /\ sAgain' = IF sClean.ok THEN clean_json_string(sClean.v) ELSE sClean
    /\ sPc' = "again"
    /\ UNCHANGED <<sRaw, sClean, sInline, sParsed, handlerVars, truncVars>>

NextSanitize == SanitizeRaw \/ SanitizeAgain

SpecSanitize == InitSanitize /\ [][NextSanitize]_vars
(***************************************************************************)
(* Properties.                                                             *)
(***************************************************************************)
Range(seq) == {seq[i] : i \in 1..Len(seq)}

Blank(text) == \A i \in 1..Len(text) : text[i] \in Whitespace

\* The pipeline run of request r has ended, in a return or in a raise.
RunEnded(r) == req[r].pc \in {"finally", "remove", "done"} /\ obs[r].extracted > 0

\* The text the variant's extraction strategy gets out of the file it read
\* is empty or white space only.
ExtractedBlank(r) ==
    LET file == obs[r].read
        ext == FileExtension(FilePath(r))
    IN  /\ obs[r].extracted > 0
        /\ file # NoFile
        /\ IF variant = "app2" THEN file.bytes = << >>
           ELSE IF variant = "app3" THEN file.fmt = "pdf" /\ Blank(Concat(file.texts))
           ELSE /\ \/ ext = <<".", "pdf">> /\ file.fmt = "pdf"
                   \/ ext \in { <<".", "docx">>, <<".", "doc">> } /\ file.fmt = "word"
                /\ Blank(Concat(file.texts))

\* C1: a run on a document whose extracted text is empty or white space only
\* fails at extraction, and the completion service is not called in that run.
C1_BlankTextFailsBeforeCompletion ==
    \A r \in Requests :
        RunEnded(r) /\ ExtractedBlank(r) =>
            /\ ~req[r].result.ok
            /\ obs[r].failedStage = "extract"
            /\ obs[r].completions = 0

\* C2: truncate_to_token_limit(t, b) with b > 0 takes at most len(t) loop
\* iterations, every iteration leaves the first int(0.9 * len) characters, a
\* text over budget is cut strictly shorter, and the text returned counts at
\* most b tokens (b being at least the count of the empty text).
C2_TruncateBoundedWithinBudget ==
    /\ tIters <= Len(tOrig)
    /\ tText = SubSeq(tOrig, 1, Len(tText))
    /\ tIters > 0 => 10 * Len(tText) <= 9 * tPrev /\ 9 * tPrev < 10 * Len(tText) + 10
    /\ tPc = "loop" /\ count_tokens(tText) > tBudget => Len(Shrink(tText)) < Len(tText)
    /\ tPc = "returned" /\ tBudget >= count_tokens(<< >>) =>
           /\ count_tokens(tText) <= tBudget
           /\ tText = truncate_to_token_limit(tOrig, tBudget)

\* A text of eleven characters was cut at least three times before it fitted.
C2_Witness ==
    /\ tPc = "returned"
    /\ Len(tOrig) >= 11
    /\ tIters >= 3
    /\ count_tokens(tOrig) > tBudget

HasOpen(text) == "{" \in Range(text)

HasClose(text) == "}" \in Range(text)

\* C3: a response without "{" or without "}" makes the sanitizer, in
\* clean_json_string and in app.py's inline extraction alike, fail with an
\* error that says no JSON object was found, and no record is returned.
C3_MissingBraceSaysNoJsonObject ==
    sPc # "raw" /\ (~HasOpen(sRaw) \/ ~HasClose(sRaw)) =>
        /\ ~sClean.ok /\ NoJsonObjectFound \in Range(sClean.msg)
        /\ ~sParsed.ok /\ NoJsonObjectFound \in Range(sParsed.msg)
        /\ ~sInline.ok /\ NoJsonObjectFound \in Range(sInline.msg)

\* The characters from the first "{" to the last "}", both included; nothing
\* when the last "}" comes before the first "{".
BraceSpan(text) ==
    LET first == CHOOSE i \in 1..Len(text) :
                     text[i] = "{" /\ \A j \in 1..Len(text) : text[j] = "{" => i <= j
        last == CHOOSE i \in 1..Len(text) :
                    text[i] = "}" /\ \A j \in 1..Len(text) : text[j] = "}" => j <= i
    IN  [k \in 1..(IF last < first THEN 0 ELSE last - first + 1) |-> text[first + k - 1]]

\* C4: for a response holding a "{" and a "}", every variant returns the
\* parse of exactly the characters from the first "{" to the last "}", and
\* fails when those do not parse.
C4_ParsesExactlyTheBraceSpan ==
    sPc # "raw" /\ HasOpen(sRaw) /\ HasClose(sRaw) =>
        LET p == json_loads(BraceSpan(sRaw))
        IN  /\ sInline.ok = p.ok
            /\ sParsed.ok = p.ok
            /\ sClean.ok = p.ok
            /\ p.ok => sInline.v = p.v /\ sParsed.v = p.v

\* Prose on both sides of an object was dropped and the object returned.
C4_Witness ==
    /\ sPc = "cleaned"
    /\ sParsed.ok /\ sInline.ok
    /\ sParsed.v.items # << >>
    /\ PyFind(sRaw, "{") > 0
    /\ PyRFind(sRaw, "}") < Len(sRaw) - 1

DictHas(v, key) == v.t = "dict" /\ \E i \in 1..Len(v.items) : v.items[i][1] = <<key>>

DictGet(v, key) == v.items[CHOOSE i \in 1..Len(v.items) : v.items[i][1] = <<key>>][2]

HasStrings(v, keys) == \A k \in keys : DictHas(v, k) /\ DictGet(v, k).t = "str"

\* The fixed shape of a record: every key of the prompt's schema is there.
HasSchemaShape(v) ==
    /\ DictHas(v, "profile")
    /\ LET profile == DictGet(v, "profile")
       IN  /\ DictHas(profile, "location")
           /\ HasStrings(DictGet(profile, "location"), {"current", "relocation"})
           /\ DictHas(profile, "education")
           /\ HasStrings(DictGet(profile, "education"), {"college", "degree", "stream"})
           /\ DictHas(profile, "professionalExperience")
           /\ DictGet(profile, "professionalExperience").t = "list"
           /\ DictHas(profile, "skills")
           /\ DictGet(profile, "skills").t = "list"

\* C5: the record of every successful run has the fixed shape: profile and
\* every schema key under it are present.
C5_SuccessHasEverySchemaKey ==
    \A r \in Requests :
        /\ RunEnded(r) /\ req[r].result.ok => HasSchemaShape(req[r].result.v)
        /\ req[r].pc = "done" /\ req[r].http.code = 200 =>
               HasSchemaShape(req[r].http.body.data)

\* The stage a failure names.  The exception carries a type and a message
\* only, so the tag is read off the message's prefixes.
StageTag(result) ==
    IF Range(result.msg) \cap {"Error extracting text from PDF: ",
                               "Error extracting text from DOCX: ",
                               "Unsupported file format: ",
                               "Failed to extract text: "} # {}
    THEN "extract"
    ELSE IF "Invalid JSON structure: " \in Range(result.msg) THEN "sanitize"
    ELSE "none"

\* C6: a run ends either in a success with a record, every stage having
\* succeeded, or in a failure with a message and the tag of the stage that
\* failed, and a failure carries no record.
C6_SuccessOrStageTaggedFailure ==
    \A r \in Requests :
        RunEnded(r) =>
            \/ /\ req[r].result.ok
               /\ obs[r].failedStage = "none"
               /\ obs[r].completions = 1
               /\ req[r].result.v.t = "dict"
            \/ /\ ~req[r].result.ok
               /\ "v" \notin DOMAIN req[r].result
               /\ req[r].result.msg # << >>
               /\ obs[r].failedStage # "none"
               /\ StageTag(req[r].result) = obs[r].failedStage

\* The name has no dot, or what follows its last dot is, in lower case,
\* none of pdf, docx and doc.
ExtensionOutside(filename) ==
    \/ "." \notin Range(filename)
    \/ LET dot == CHOOSE i \in 1..Len(filename) :
                      filename[i] = "." /\ \A j \in (i + 1)..Len(filename) : filename[j] # "."
           ext == [k \in 1..(Len(filename) - dot) |-> LowerUnit(filename[dot + k])]
       IN  ext \notin { <<"pdf">>, <<"docx">>, <<"doc">> }

\* C7: an upload whose name has no dot or an extension outside pdf, docx and
\* doc is answered 400: its file is never saved, no text is extracted from
\* it and no completion call is made for it.
C7_DisallowedNeverReachesPipeline ==
    \A r \in Requests :
        req[r].filename # << >> /\ ExtensionOutside(req[r].filename) =>
            /\ req[r].pc = "done"
            /\ req[r].http.code = 400
            /\ ~obs[r].saved
            /\ obs[r].extracted = 0
            /\ obs[r].completions = 0
            /\ \A p \in Paths : fs[p] = NoFile \/ fs[p].owner # r

\* "cv.pdf.TXT" was turned away while the other request went through.
C7_Witness ==
    /\ req["r1"].pc = "done"
    /\ req["r1"].filename = <<"cv", ".", "pdf", ".", "TXT">>
    /\ req["r2"].pc = "done"
    /\ req["r2"].http.code = 200

\* C8: once the handler of a request that saved its upload has returned, the
\* file that request saved is no longer in the uploads folder, whether the
\* pipeline returned or raised.
C8_SavedFileGoneAfterReturn ==
    \A r \in Requests :
        req[r].pc = "done" /\ obs[r].saved =>
            \A p \in Paths : fs[p] = NoFile \/ fs[p].owner # r

\* One request ended in a success, the other in a failure, both after a save.
C8_Witness ==
    /\ req["r1"].pc = "done" /\ obs["r1"].saved /\ req["r1"].http.code = 200
    /\ req["r2"].pc = "done" /\ obs["r2"].saved /\ req["r2"].http.code = 500
    /\ obs["r2"].failedStage = "completion"

\* The text a request sends to the completion service when it runs alone.
AlonePayload(v, filename, doc) == PreparePayload(v, secure_filename(filename), doc)

\* The responses a request can get when it runs alone.
AloneResponses(v, filename, doc) ==
    LET p == AlonePayload(v, filename, doc)
    IN  IF ~p.ok THEN {HttpOf(p)}
        ELSE {HttpOf(IF c.ok THEN ParseResponse(v, c.v) ELSE WrapParseError(v, c)) :
                 c \in CompletionResults}

\* C9: whatever the interleaving of two requests, each reads the bytes of its
\* own upload, sends what it would send alone and gets a response it could
\* get alone.
C9_RequestsDoNotInterfere ==
    \A r \in Requests :
        req[r].pc = "done" /\ obs[r].saved =>
            /\ obs[r].read = req[r].doc
            /\ obs[r].completions > 0 =>
                   obs[r].sent = AlonePayload(variant, req[r].filename, req[r].doc).v
            /\ req[r].http \in AloneResponses(variant, req[r].filename, req[r].doc)

\* Some stretch of the text is a JSON object.
ContainsValidObject(text) ==
    \E i \in 1..Len(text) : \E j \in i..Len(text) :
        text[i] = "{" /\ text[j] = "}" /\
        LET p == json_loads(SubSeq(text, i, j)) IN p.ok /\ p.v.t = "dict"

\* C10: for a raw text holding a valid JSON object, sanitizing the canonical
\* serialization of the sanitized text gives the sanitized text again: the
\* same serialization, hence the same structure (a text on which the first
\* call fails has that failure as the outcome of both sides).
C10_SanitizeIdempotent ==
    sPc = "again" /\ ContainsValidObject(sRaw) =>
        /\ sAgain = sClean
        /\ sClean.ok => json_loads(sAgain.v) = json_loads(sClean.v)

\* An object inside prose, written with other spacing than json.dumps uses and
\* with a repeated key, was sanitized twice.
C10_Witness ==
    /\ sPc = "again"
    /\ sClean.ok /\ sAgain.ok
    /\ sClean.v # BraceSpan(sRaw)
    /\ Len(sClean.v) > 2
    /\ PyFind(sRaw, "{") > 0
====
